---------------------------- MODULE Spec2Model ----------------------------
(***************************************************************************)
(* A model of qr2term: the square pixel matrix (src/src/matrix.rs), the    *)
(* integer square root that guards it (src/src/util.rs), the encoder       *)
(* adapter (src/src/qr.rs), the half-block renderer (src/src/render.rs)    *)
(* and the print_qr entry point with its own quiet zone (src/src/lib.rs).  *)
(*                                                                         *)
(* One behaviour follows one value through the library:                    *)
(*   start -> Matrix::new            -> any calls on the matrix            *)
(*   start -> Qr::from -> to_matrix  -> any calls on the matrix            *)
(*   start -> print_qr                                                     *)
(* where the calls on a matrix are surround, width, height, render and     *)
(* print_stdout, in any order and any number of times within the bounds.   *)
(* A panic ends the behaviour (the call unwinds, no value is produced); a  *)
(* panic of a print_stdout call ends the thread that made the call.        *)
(* Spec is the whole library with sinks that accept every write and a      *)
(* stdout that may fail; MatrixSpec is the matrix alone on longer          *)
(* sequences, SinkSpec is render into a sink that rejects a write call,    *)
(* SqrtSpec is usize_sqrt alone.                                           *)
(* Text is written piece by piece: one Write::write call per piece that    *)
(* the formatting of a styled character produces (1 for a line feed; for a *)
(* cell 15, or 9 when the environment variable NO_COLOR turns colours      *)
(* off).                                                                   *)
(* render into a sink of the caller is one step: `&mut W` is exclusive, no *)
(* other call can reach the sink while it runs.  print_stdout is not: each *)
(* write! of its render takes the lock of stdout for one cell or one line  *)
(* feed, and between two of them another thread's print_stdout may write.  *)
(* usize arithmetic is modelled on the naturals: every index and length    *)
(* the bounded inputs produce is far below 2^32, where `as f64` is exact   *)
(* and no product overflows.                                               *)
(***************************************************************************)
EXTENDS Naturals, Sequences, FiniteSets

(***************************************************************************)
(* Bounds of the model.                                                    *)
(***************************************************************************)
\* longest flat sequence handed to Matrix::new
MaxLen == 4
\* longest flat sequence handed to Matrix::new when the matrix alone is
\* studied
MaxMatrixLen == 9
\* largest thickness handed to Matrix::surround
MaxThickness == 2
\* surround is not called once the padded side would exceed this
MaxSide == 5
\* largest width of a code the external encoder returns
MaxCode == 2
\* a failing stdout rejects its k-th write call, k in 1..MaxFail
MaxFail == 1
\* when sink failures are studied, the sink handed to render rejects its
\* k-th write call, k in 1..MaxReject (a 3 x 3 matrix takes 92 write calls)
MaxReject == 93
\* a failing screen rejects its k-th paint, k in 1..MaxPaintFail
MaxPaintFail == 2
\* render and print_stdout are called at most this many times in all
MaxRenders == 2
\* print_stdout is not called on a matrix of a larger side
MaxStdoutSide == 2
\* largest number handed to usize_sqrt on its own
MaxNum == 64

(***************************************************************************)
(* qrcode::types::Color, the element type of every matrix here.            *)
(***************************************************************************)
Color == {"Dark", "Light"}

\* The two independent sinks a caller hands to Renderer::render.
Sinks == {"sink1", "sink2"}

\* std::io::stdout(), the sink of Renderer::print_stdout.
Stdout == "stdout"

\* Every `W: Write` the Renderer writes to.
Writers == Sinks \cup {Stdout}

\* The threads that call Renderer::print_stdout, one call each.
Threads == {"t1", "t2"}

\* All flat sequences over S of length 0..n.
SeqUpTo(S, n) == UNION {[1..k -> S] : k \in 0..n}

(***************************************************************************)
(* src/src/util.rs                                                         *)
(***************************************************************************)
\* `(num as f64).sqrt() as usize`: the real square root, truncated.
FloatSqrt(num) == CHOOSE s \in 0..num : s * s <= num /\ (s + 1) * (s + 1) > num

\* usize_sqrt without its assertion: the truncated root of any number.
usize_sqrt_unasserted(num) == [panic |-> FALSE, val |-> FloatSqrt(num)]

\* usize_sqrt: the truncated root, or a panic when assert_eq!(num, sqrt * sqrt)
\* fails.
usize_sqrt(num) ==
    LET sqrt == FloatSqrt(num)
    IN  IF num = sqrt * sqrt
        THEN [panic |-> FALSE, val |-> sqrt]
        ELSE [panic |-> TRUE]

(***************************************************************************)
(* src/src/matrix.rs                                                       *)
(***************************************************************************)
\* Matrix::new that stores the pixels without asserting their number.
MatrixNew_unchecked(p) == [panic |-> FALSE, pixels |-> p]

\* Matrix::new that also refuses the empty sequence.
MatrixNew_nonempty(p) ==
    IF Len(p) = 0 \/ usize_sqrt(Len(p)).panic
    THEN [panic |-> TRUE]
    ELSE [panic |-> FALSE, pixels |-> p]

\* Matrix::new: the assertion of usize_sqrt decides; the pixels are stored
\* as given.
MatrixNew(p) ==
    IF usize_sqrt(Len(p)).panic
    THEN [panic |-> TRUE]
    ELSE [panic |-> FALSE, pixels |-> p]

\* Matrix::size
size(p) == usize_sqrt(Len(p))

\* vec![quiet; n]
Filled(n, quiet) == [k \in 1..n |-> quiet]

\* The loop body with the output position computed on the input's width.
CopyCell_narrow(out, pix, width, out_width, thickness, vec_row, vec_col) ==
    LET vec_pos == width * vec_row + vec_col
        out_row == vec_row + thickness
        out_col == vec_col + thickness
        out_pos == out_row * width + out_col
    IN  IF vec_pos >= Len(pix) \/ out_pos >= Len(out)
        THEN [panic |-> TRUE]
        ELSE [panic |-> FALSE,
              out |-> [out EXCEPT ![out_pos + 1] = pix[vec_pos + 1]]]

\* The body of surround's two loops for one (vec_row, vec_col), on 0-based
\* positions; an index outside either vector panics.
CopyCell(out, pix, width, out_width, thickness, vec_row, vec_col) ==
    LET vec_pos == width * vec_row + vec_col
        out_row == vec_row + thickness
        out_col == vec_col + thickness
        out_pos == out_row * out_width + out_col
    IN  IF vec_pos >= Len(pix) \/ out_pos >= Len(out)
        THEN [panic |-> TRUE]
        ELSE [panic |-> FALSE,
              out |-> [out EXCEPT ![out_pos + 1] = pix[vec_pos + 1]]]

\* for vec_row in 0..width { for vec_col in 0..width { ... } }, from
\* (vec_row, vec_col) on.
RECURSIVE CopyLoop(_, _, _, _, _, _, _)
CopyLoop(out, pix, width, out_width, thickness, vec_row, vec_col) ==
    IF vec_row >= width
    THEN [panic |-> FALSE, out |-> out]
    ELSE IF vec_col >= width
    THEN CopyLoop(out, pix, width, out_width, thickness, vec_row + 1, 0)
    ELSE LET r == CopyCell(out, pix, width, out_width, thickness,
                           vec_row, vec_col)
         IN  IF r.panic
             THEN r
             ELSE CopyLoop(r.out, pix, width, out_width, thickness,
                           vec_row, vec_col + 1)

\* Matrix::surround: the new backing sequence, or a panic.
surround(pix, thickness, quiet) ==
    IF size(pix).panic
    THEN [panic |-> TRUE]
    ELSE LET width == size(pix).val
             out_width == width + thickness * 2
         IN  CopyLoop(Filled(out_width * out_width, quiet), pix, width,
                      out_width, thickness, 0, 0)

(***************************************************************************)
(* The sink of a render call, any `W: Write`: the buffers it has accepted  *)
(* (data, one element per accepted write call), how many write calls it    *)
(* has received (calls), and the call it rejects (failAt, 0 for a sink     *)
(* that accepts every call) with the error's kind.  A sink that rejects    *)
(* with ErrorKind::Interrupted does so once and accepts the call when it   *)
(* is made again; a sink that rejects with any other kind rejects every    *)
(* later call too.  A sink accepts a buffer whole.  Beside the sink is     *)
(* kept what the renderer asked the styling library to write into it       *)
(* (asked: the character and the colours of each write!, in order), which  *)
(* the sink itself never sees.                                             *)
(***************************************************************************)
ErrorKind == {"Interrupted", "Other"}

\* How a sink answers its write calls: it accepts all of them, or rejects
\* call number `at` with an error of kind `kind`.
NoFault == [at |-> 0, kind |-> "none"]

Faults(n) ==
    {NoFault} \cup {[at |-> k, kind |-> e] : k \in 1..n, e \in ErrorKind}

NewSink(fault) ==
    [data |-> <<>>, calls |-> 0, failAt |-> fault.at, kind |-> fault.kind,
     asked |-> <<>>]

\* One Write::write(buf) on the sink: Ok(buf.len()) with the buffer appended,
\* or Err(kind) with the sink's data as it was.
SinkWrite(target, buf) ==
    LET n == target.calls + 1
        rejects == /\ target.failAt # 0
                   /\ IF target.kind = "Interrupted"
                      THEN n = target.failAt
                      ELSE n >= target.failAt
    IN  IF rejects
        THEN [panic |-> FALSE, err |-> TRUE, kind |-> target.kind,
              sink |-> [target EXCEPT !.calls = n]]
        ELSE [panic |-> FALSE, err |-> FALSE, kind |-> "none",
              sink |-> [target EXCEPT !.calls = n,
                                      !.data = Append(@, buf)]]

\* Write::write_all(buf), as write! reaches it for each piece of text: the
\* call is made again when the sink answers ErrorKind::Interrupted, and any
\* other error is returned.
RECURSIVE write_all(_, _)
write_all(target, buf) ==
    LET r == SinkWrite(target, buf)
    IN  IF r.err /\ r.kind = "Interrupted"
        THEN write_all(r.sink, buf)
        ELSE r

\* Write::write_fmt, what write!/writeln! expand to: one write_all per piece
\* of the formatted text, in order; the first Err ends it.
RECURSIVE write_fmt(_, _)
write_fmt(target, pieces) ==
    IF pieces = <<>>
    THEN [panic |-> FALSE, err |-> FALSE, kind |-> "none", sink |-> target]
    ELSE LET r == write_all(target, Head(pieces))
         IN  IF r.err
             THEN r
             ELSE write_fmt(r.sink, Tail(pieces))

(***************************************************************************)
(* src/src/render.rs                                                       *)
(***************************************************************************)
\* The parameter of the SGR sequence for a colour: 5;0 is Black, 5;15 White.
ColorCode(color) == IF color = "Black" THEN "5;0" ELSE "5;15"

\* Whether the environment variable NO_COLOR is set to a non-empty value.
\* The styling library reads it at its first styled write and keeps the
\* answer for the life of the process.
VARIABLE no_color

\* The pieces `{}` formats content.<fg>().on_<bg>() into: set background, set
\* foreground, the content, reset background, reset foreground.  ESC stands
\* for the byte 0x1b.  With NO_COLOR set the colour parameters are left out
\* and only the frames of the four sequences are written.
Styled(content, fg, bg) ==
    IF no_color
    THEN <<"ESC[", "m",
           "ESC[", "m",
           content,
           "ESC[", "m",
           "ESC[", "m">>
    ELSE <<"ESC[", "48;", ColorCode(bg), "m",
           "ESC[", "38;", ColorCode(fg), "m",
           content,
           "ESC[", "49", "m",
           "ESC[", "39", "m">>

\* write!(target, "{}", content.<fg>().on_<bg>()): the renderer asks for the
\* content in these colours, and the pieces it is formatted into are written
\* to the sink.
StyledWrite(target, content, fg, bg) ==
    write_fmt([target EXCEPT
                  !.asked = Append(@, [glyph |-> content, fg |-> fg,
                                       bg |-> bg])],
              Styled(content, fg, bg))

\* U+2584.white().on_black()
black_above_white(target) == StyledWrite(target, "U+2584", "White", "Black")

\* U+2584.black().on_white()
white_above_black(target) == StyledWrite(target, "U+2584", "Black", "White")

\* " ".white().on_black()
black_above_black(target) == StyledWrite(target, " ", "White", "Black")

\* " ".black().on_white()
white_above_white(target) == StyledWrite(target, " ", "Black", "White")

\* writeln!(target): a line feed (LF, the byte 0x0a) with no styling
newline(target) ==
    write_fmt([target EXCEPT
                  !.asked = Append(@, [glyph |-> "LF", fg |-> "none",
                                       bg |-> "none"])],
              <<"LF">>)

\* The match on (pixels[vec_pos], pixels[vec_pos_below]) of the paired rows.
PairCell(target, top, bottom) ==
    CASE top = "Dark"  /\ bottom = "Dark"  -> black_above_black(target)
      [] top = "Dark"  /\ bottom = "Light" -> black_above_white(target)
      [] top = "Light" /\ bottom = "Dark"  -> white_above_black(target)
      [] top = "Light" /\ bottom = "Light" -> white_above_white(target)

\* The last row's match with the missing bottom pixel taken as Dark.
LastCell_dark_below(target, top) ==
    CASE top = "Dark"  -> black_above_black(target)
      [] top = "Light" -> white_above_black(target)

\* The match on pixels[vec_pos] of the unpaired last row.
LastCell(target, top) ==
    CASE top = "Dark"  -> black_above_white(target)
      [] top = "Light" -> white_above_white(target)

\* The paired loop body writing its cell a second time when the sink
\* rejected it.
RenderCell_retry(target, pixels, width, row, col) ==
    LET vec_pos == (row * 2) * width + col
        vec_pos_below == (row * 2 + 1) * width + col
    IN  IF vec_pos >= Len(pixels) \/ vec_pos_below >= Len(pixels)
        THEN [panic |-> TRUE, err |-> FALSE, kind |-> "none", sink |-> target]
        ELSE LET r == PairCell(target, pixels[vec_pos + 1],
                               pixels[vec_pos_below + 1])
             IN  IF r.err
                 THEN PairCell(r.sink, pixels[vec_pos + 1],
                               pixels[vec_pos_below + 1])
                 ELSE r

\* The body of the paired loop for one (row, col), on 0-based positions.
RenderCell(target, pixels, width, row, col) ==
    LET vec_pos == (row * 2) * width + col
        vec_pos_below == (row * 2 + 1) * width + col
    IN  IF vec_pos >= Len(pixels) \/ vec_pos_below >= Len(pixels)
        THEN [panic |-> TRUE, err |-> FALSE, kind |-> "none", sink |-> target]
        ELSE PairCell(target, pixels[vec_pos + 1], pixels[vec_pos_below + 1])

\* for row in 0..width / 2 { for col in 0..width { ... } newline }, from
\* (row, col) on; `?` returns the first Err.
RECURSIVE RenderRows(_, _, _, _, _)
RenderRows(target, pixels, width, row, col) ==
    IF row >= width \div 2
    THEN [panic |-> FALSE, err |-> FALSE, kind |-> "none", sink |-> target]
    ELSE LET r == IF col >= width
                  THEN newline(target)
                  ELSE RenderCell(target, pixels, width, row, col)
         IN  IF r.panic \/ r.err
             THEN r
             ELSE IF col >= width
                  THEN RenderRows(r.sink, pixels, width, row + 1, 0)
                  ELSE RenderRows(r.sink, pixels, width, row, col + 1)

\* The body of the last-row loop for one col.
RenderLastCell(target, pixels, width, col) ==
    LET vec_pos == width * (width - 1) + col
    IN  IF vec_pos >= Len(pixels)
        THEN [panic |-> TRUE, err |-> FALSE, kind |-> "none", sink |-> target]
        ELSE LastCell(target, pixels[vec_pos + 1])

\* if width % 2 == 1 { for col in 0..width { ... } newline }, from col on.
RECURSIVE RenderLastRow(_, _, _, _)
RenderLastRow(target, pixels, width, col) ==
    LET r == IF col >= width
             THEN newline(target)
             ELSE RenderLastCell(target, pixels, width, col)
    IN  IF r.panic \/ r.err \/ col >= width
        THEN r
        ELSE RenderLastRow(r.sink, pixels, width, col + 1)

\* The paired loop alone: the unpaired last row of an odd side is dropped.
RenderGrid_pairs_only(target, pixels, width) ==
    RenderRows(target, pixels, width, 0, 0)

\* The two loops over a flat vector of the given width.
RenderGrid(target, pixels, width) ==
    LET r == RenderRows(target, pixels, width, 0, 0)
    IN  IF r.panic \/ r.err
        THEN r
        ELSE IF width % 2 = 1
             THEN RenderLastRow(r.sink, pixels, width, 0)
             ELSE r

\* Renderer::render: Ok(()) or the first Err, and the sink afterwards.
render(pixels, target) ==
    IF size(pixels).panic
    THEN [panic |-> TRUE, err |-> FALSE, kind |-> "none", sink |-> target]
    ELSE RenderGrid(target, pixels, size(pixels).val)

\* The write! or writeln! render makes at output row `row`, column `col`:
\* the cell of a paired row (row < width / 2) or of the unpaired last row,
\* and at col = width the line feed of the row.
RenderWrite(target, pixels, width, row, col) ==
    IF col >= width
    THEN newline(target)
    ELSE IF row < width \div 2
    THEN RenderCell(target, pixels, width, row, col)
    ELSE RenderLastCell(target, pixels, width, col)

\* The output rows render writes for a matrix of the given width: one per
\* pair of pixel rows and one for the unpaired last row.
RenderRowCount(width) == (width \div 2) + (width % 2)

\* Renderer::width
width(pixels) == size(pixels).val

\* Renderer::height rounding down.
height_floor(pixels) == size(pixels).val \div 2

\* Renderer::height
height(pixels) == (size(pixels).val \div 2) + (size(pixels).val % 2)

(***************************************************************************)
(* The external encoder (qrcode::QrCode::new): for any input it either     *)
(* rejects it or returns a square code of some width.  Nothing more is     *)
(* known of it here, so its outcome is an input of the model.              *)
(***************************************************************************)
EncoderOutcomes ==
    {[err |-> TRUE]} \cup
    UNION {{[err |-> FALSE, width |-> w, colors |-> c] :
                c \in [1..(w * w) -> Color]} : w \in 1..MaxCode}

(***************************************************************************)
(* src/src/lib.rs.  Its Renderer paints on a terminal screen, one styled   *)
(* object per paint call: the screen holds the objects painted (data), the *)
(* paint calls it has received (calls) and the paint it rejects (failAt, 0 *)
(* for none; a screen that has rejected a paint rejects every later one).  *)
(***************************************************************************)
NewScreen(failAt) == [data |-> <<>>, calls |-> 0, failAt |-> failAt]

\* style(content).with(fg).on(bg).paint(&self.screen)
paint(scr, content, fg, bg) ==
    IF scr.failAt # 0 /\ scr.calls + 1 >= scr.failAt
    THEN [err |-> TRUE, sink |-> [scr EXCEPT !.calls = @ + 1]]
    ELSE [err |-> FALSE,
          sink |-> [scr EXCEPT !.calls = @ + 1,
                               !.data = Append(@, [glyph |-> content,
                                                   fg |-> fg, bg |-> bg])]]

\* .expect("failed to paint QR code"): an Err is a panic
expect(r) == [panic |-> r.err, sink |-> r.sink]

\* lib.rs black_above_white
screen_black_above_white(scr) == expect(paint(scr, "U+2584", "White", "Black"))

\* lib.rs white_above_black
screen_white_above_black(scr) == expect(paint(scr, "U+2584", "Black", "White"))

\* lib.rs black_above_black
screen_black_above_black(scr) == expect(paint(scr, " ", "White", "Black"))

\* lib.rs white_above_white
screen_white_above_white(scr) == expect(paint(scr, " ", "Black", "White"))

\* lib.rs newline: style("\n") with no colours
screen_newline(scr) == expect(paint(scr, "LF", "none", "none"))

\* The body of print_barcode_vec's paired loop for one (row, col).
PaintCell(scr, vec, vec_width, row, col) ==
    LET vec_pos == (row * 2) * vec_width + col
        vec_pos_below == (row * 2 + 1) * vec_width + col
    IN  IF vec_pos >= Len(vec) \/ vec_pos_below >= Len(vec)
        THEN [panic |-> TRUE, sink |-> scr]
        ELSE CASE vec[vec_pos + 1] = "Dark" /\ vec[vec_pos_below + 1] = "Dark"
                    -> screen_black_above_black(scr)
               [] vec[vec_pos + 1] = "Dark" /\ vec[vec_pos_below + 1] = "Light"
                    -> screen_black_above_white(scr)
               [] vec[vec_pos + 1] = "Light" /\ vec[vec_pos_below + 1] = "Dark"
                    -> screen_white_above_black(scr)
               [] vec[vec_pos + 1] = "Light" /\ vec[vec_pos_below + 1] = "Light"
                    -> screen_white_above_white(scr)

\* for row in 0..vec_width / 2 { for col in 0..vec_width { ... } newline },
\* from (row, col) on; a panic ends it.
RECURSIVE PaintRows(_, _, _, _, _)
PaintRows(scr, vec, vec_width, row, col) ==
    IF row >= vec_width \div 2
    THEN [panic |-> FALSE, sink |-> scr]
    ELSE LET r == IF col >= vec_width
                  THEN screen_newline(scr)
                  ELSE PaintCell(scr, vec, vec_width, row, col)
         IN  IF r.panic
             THEN r
             ELSE IF col >= vec_width
                  THEN PaintRows(r.sink, vec, vec_width, row + 1, 0)
                  ELSE PaintRows(r.sink, vec, vec_width, row, col + 1)

\* if vec_width % 2 == 1 { for col in 0..vec_width { ... } newline }, from
\* col on.
RECURSIVE PaintLastRow(_, _, _, _)
PaintLastRow(scr, vec, vec_width, col) ==
    LET vec_pos == vec_width * (vec_width - 1) + col
        r == IF col >= vec_width
             THEN screen_newline(scr)
             ELSE IF vec_pos >= Len(vec)
             THEN [panic |-> TRUE, sink |-> scr]
             ELSE IF vec[vec_pos + 1] = "Dark"
             THEN screen_black_above_white(scr)
             ELSE screen_white_above_white(scr)
    IN  IF r.panic \/ col >= vec_width
        THEN r
        ELSE PaintLastRow(r.sink, vec, vec_width, col + 1)

\* Renderer::print_barcode_vec: the assertion, then the two loops on the
\* screen; it returns nothing, a rejected paint is a panic.
print_barcode_vec(scr, vec, vec_width) ==
    IF Len(vec) # vec_width * vec_width
    THEN [panic |-> TRUE, sink |-> scr]
    ELSE LET r == PaintRows(scr, vec, vec_width, 0, 0)
         IN  IF r.panic
             THEN r
             ELSE IF vec_width % 2 = 1
                  THEN PaintLastRow(r.sink, vec, vec_width, 0)
                  ELSE r

\* let quiet_width = 1;
quiet_width == 1

\* add_quiet_zone padding the top and the left only.
add_quiet_zone_one_sided(vec, vec_width, quiet_w, quiet) ==
    IF Len(vec) # vec_width * vec_width
    THEN [panic |-> TRUE]
    ELSE LET out_width == vec_width + quiet_w
         IN  CopyLoop(Filled(out_width * out_width, quiet), vec, vec_width,
                      out_width, quiet_w, 0, 0)

\* Renderer::add_quiet_zone: the assertion, then the loops of surround.
add_quiet_zone(vec, vec_width, quiet_w, quiet) ==
    IF Len(vec) # vec_width * vec_width
    THEN [panic |-> TRUE]
    ELSE LET out_width == vec_width + quiet_w * 2
         IN  CopyLoop(Filled(out_width * out_width, quiet), vec, vec_width,
                      out_width, quiet_w, 0, 0)

\* print_qr that unwraps the encoder's result: a rejected input panics.
print_qr_unwrap(scr, enc) ==
    IF enc.err
    THEN [panic |-> TRUE, result |-> "none", padded |-> FALSE, screen |-> scr]
    ELSE LET vec == add_quiet_zone(enc.colors, enc.width, quiet_width, "Light")
             vec_width == enc.width + (quiet_width * 2)
             r == print_barcode_vec(scr, vec.out, vec_width)
         IN  [panic |-> r.panic,
              result |-> IF r.panic THEN "none" ELSE "Ok",
              padded |-> TRUE, vec |-> vec.out,
              vec_width |-> vec_width, screen |-> r.sink]

\* Renderer::print_qr on the encoder's outcome for `text`: the result, the
\* vector handed to print_barcode_vec (if any) and the screen afterwards.
print_qr(scr, enc) ==
    IF enc.err
    THEN [panic |-> FALSE, result |-> "Err", padded |-> FALSE, screen |-> scr]
    ELSE LET vec == add_quiet_zone(enc.colors, enc.width, quiet_width, "Light")
             vec_width == enc.width + (quiet_width * 2)
         IN  IF vec.panic
             THEN [panic |-> TRUE, result |-> "none", padded |-> FALSE,
                   screen |-> scr]
             ELSE LET r == print_barcode_vec(scr, vec.out, vec_width)
                  IN  [panic |-> r.panic,
                       result |-> IF r.panic THEN "none" ELSE "Ok",
                       padded |-> TRUE, vec |-> vec.out,
                       vec_width |-> vec_width, screen |-> r.sink]

(***************************************************************************)
(* src/src/qr.rs                                                           *)
(***************************************************************************)
\* Qr::from on the encoder's outcome for `data`
QrFromResult(enc) ==
    IF enc.err
    THEN [result |-> "Err"]
    ELSE [result |-> "Ok", code |-> enc]

\* Qr::to_matrix
to_matrix(code) == MatrixNew(code.colors)

(***************************************************************************)
(* The state: one Matrix (pixels, once constructed), one Qr (once          *)
(* constructed), the sinks handed to render and stdout (target) with the   *)
(* record of every render call made on each sink (renders: the matrix      *)
(* rendered, the result, the text the call added to the sink, the cells    *)
(* and line feeds it asked for, the write calls it made and those the      *)
(* sink had received before), the print_stdout                             *)
(* call of each thread (jobs: not made, running at an output row and       *)
(* column, returned or panicked), the screen print_qr paints on, a record  *)
(* of the last call (its arguments, the matrix before it, its outcome),    *)
(* and the environment (no_color, declared above).                         *)
(***************************************************************************)
VARIABLES pc, pixels, qr, target, renders, jobs, screen, last

vars == <<pc, pixels, qr, target, renders, jobs, screen, last, no_color>>

\* A thread that has not called print_stdout.
Idle == [state |-> "idle", row |-> 0, col |-> 0]

Init ==
    /\ pc = "start"
    /\ pixels = <<>>
    /\ qr = [exists |-> FALSE]
    /\ target = [i \in Writers |-> NewSink(NoFault)]
    /\ renders = [i \in Sinks |-> <<>>]
    /\ jobs = [t \in Threads |-> Idle]
    /\ screen = NewScreen(0)
    /\ last = [op |-> "init"]
    /\ no_color \in BOOLEAN

\* Matrix::new(p), for any flat sequence p of length up to n
NewUpTo(n) ==
    /\ pc = "start"
    /\ \E p \in SeqUpTo(Color, n) :
          LET m == MatrixNew(p)
          IN  /\ pc' = IF m.panic THEN "panicked" ELSE "matrix"
              /\ pixels' = IF m.panic THEN pixels ELSE m.pixels
              /\ last' = [op |-> "new", input |-> p, panic |-> m.panic]
    /\ UNCHANGED <<qr, target, renders, jobs, screen, no_color>>

\* Matrix::new(p)
New == NewUpTo(MaxLen)

\* matrix.surround(thickness, quiet).  surround takes `&mut self`: it is not
\* called while a print_stdout call of some thread holds `&matrix`.
Surround(thickness, quiet) ==
    /\ pc = "matrix"
    /\ \A t \in Threads : jobs[t].state # "running"
    /\ FloatSqrt(Len(pixels)) + thickness * 2 <= MaxSide
    /\ LET r == surround(pixels, thickness, quiet)
       IN  /\ pc' = IF r.panic THEN "panicked" ELSE "matrix"
           /\ pixels' = IF r.panic THEN pixels ELSE r.out
           /\ last' = [op |-> "surround", before |-> pixels,
                       thickness |-> thickness, quiet |-> quiet,
                       panic |-> r.panic]
    /\ UNCHANGED <<qr, target, renders, jobs, screen, no_color>>

\* renderer.width(&matrix)
Width ==
    /\ pc = "matrix"
    /\ pc' = IF size(pixels).panic THEN "panicked" ELSE pc
    /\ last' = IF size(pixels).panic
               THEN [op |-> "width", before |-> pixels, panic |-> TRUE]
               ELSE [op |-> "width", before |-> pixels, panic |-> FALSE,
                     out |-> width(pixels)]
    /\ UNCHANGED <<pixels, qr, target, renders, jobs, screen, no_color>>

\* renderer.height(&matrix)
Height ==
    /\ pc = "matrix"
    /\ pc' = IF size(pixels).panic THEN "panicked" ELSE pc
    /\ last' = IF size(pixels).panic
               THEN [op |-> "height", before |-> pixels, panic |-> TRUE]
               ELSE [op |-> "height", before |-> pixels, panic |-> FALSE,
                     out |-> height(pixels)]
    /\ UNCHANGED <<pixels, qr, target, renders, jobs, screen, no_color>>

\* The render and print_stdout calls made so far.
RenderCalls ==
    Cardinality(UNION {{<<i, k>> : k \in 1..Len(renders[i])} : i \in Sinks})
    + Cardinality({t \in Threads : jobs[t].state # "idle"})

\* Sink i as a call finds it: how a sink answers is settled by the first
\* write call it receives.
SinkOf(i, fault) ==
    IF target[i].calls = 0 THEN NewSink(fault) ELSE target[i]

\* What a render call on `before` that ended as r is remembered by.
RenderRecord(before, r) ==
    [matrix |-> pixels,
     result |-> IF r.err THEN "Err" ELSE IF r.panic THEN "panic" ELSE "Ok",
     text   |-> SubSeq(r.sink.data, Len(before.data) + 1, Len(r.sink.data)),
     asked  |-> SubSeq(r.sink.asked, Len(before.asked) + 1,
                       Len(r.sink.asked)),
     calls  |-> r.sink.calls - before.calls,
     first  |-> before.calls]

\* renderer.render(&matrix, &mut sink i), sink i answering by `fault`; the
\* text is added to what sink i holds
Render(i, fault) ==
    /\ pc = "matrix"
    /\ RenderCalls < MaxRenders
    /\ SinkOf(i, fault).failAt = fault.at
    /\ SinkOf(i, fault).kind = fault.kind
    /\ \E before \in {SinkOf(i, fault)} :
          \E r \in {render(pixels, before)} :
              /\ pc' = IF r.panic THEN "panicked" ELSE pc
              /\ target' = [target EXCEPT ![i] = r.sink]
              /\ renders' = [renders EXCEPT
                               ![i] = Append(@, RenderRecord(before, r))]
    /\ last' = [op |-> "render", before |-> pixels, sink |-> i]
    /\ UNCHANGED <<pixels, qr, jobs, screen, no_color>>

\* Thread t calls renderer.print_stdout(&matrix): render reads the size of
\* the matrix; an empty matrix has no row to write and the call returns.
PrintStdoutCall(t) ==
    /\ pc = "matrix"
    /\ jobs[t].state = "idle"
    /\ RenderCalls < MaxRenders
    /\ FloatSqrt(Len(pixels)) <= MaxStdoutSide
    /\ jobs' = [jobs EXCEPT
                  ![t] = IF size(pixels).panic
                         THEN [Idle EXCEPT !.state = "panicked"]
                         ELSE IF RenderRowCount(size(pixels).val) = 0
                         THEN [Idle EXCEPT !.state = "returned"]
                         ELSE [Idle EXCEPT !.state = "running"]]
    /\ last' = [op |-> "print_stdout", before |-> pixels, thread |-> t]
    /\ UNCHANGED <<pc, pixels, qr, target, renders, screen, no_color>>

\* Where the render of a matrix of the given side goes on after the write
\* at (row, col): the next column, the next row, or Ok(()) after the line
\* feed of the last row.
AfterWrite(job, side) ==
    IF job.col < side
    THEN [job EXCEPT !.col = @ + 1]
    ELSE IF job.row + 1 < RenderRowCount(side)
    THEN [job EXCEPT !.row = @ + 1, !.col = 0]
    ELSE [job EXCEPT !.state = "returned"]

\* The print_stdout call of thread t makes its next write! on stdout, which
\* answers by `fault`: the pieces of one cell or one line feed, written
\* while the call holds the lock of stdout.  An Err ends the render and
\* .expect("failed to print QR code to stdout") panics.
StdoutWrite(t, fault) ==
    /\ jobs[t].state = "running"
    /\ SinkOf(Stdout, fault).failAt = fault.at
    /\ SinkOf(Stdout, fault).kind = fault.kind
    /\ \E r \in {RenderWrite(SinkOf(Stdout, fault), pixels, size(pixels).val,
                              jobs[t].row, jobs[t].col)} :
          /\ target' = [target EXCEPT ![Stdout] = r.sink]
          /\ jobs' = [jobs EXCEPT
                        ![t] = IF r.panic \/ r.err
                               THEN [@ EXCEPT !.state = "panicked"]
                               ELSE AfterWrite(@, size(pixels).val)]
    /\ last' = [op |-> "print_stdout", before |-> pixels, thread |-> t]
    /\ UNCHANGED <<pc, pixels, qr, renders, screen, no_color>>

\* Qr::from(data), the encoder answering enc
QrFrom ==
    /\ pc = "start"
    /\ \E enc \in EncoderOutcomes :
          LET r == QrFromResult(enc)
          IN  /\ pc' = IF r.result = "Err" THEN "done" ELSE "qr"
              /\ qr' = IF r.result = "Err" THEN qr
                       ELSE [exists |-> TRUE, code |-> r.code]
              /\ last' = [op |-> "qr_from", enc |-> enc, result |-> r.result]
    /\ UNCHANGED <<pixels, target, renders, jobs, screen, no_color>>

\* qr.to_matrix()
ToMatrix ==
    /\ pc = "qr"
    /\ LET m == to_matrix(qr.code)
       IN  /\ pc' = IF m.panic THEN "panicked" ELSE "matrix"
           /\ pixels' = IF m.panic THEN pixels ELSE m.pixels
           /\ last' = [op |-> "to_matrix", panic |-> m.panic]
    /\ UNCHANGED <<qr, target, renders, jobs, screen, no_color>>

\* print_qr(text), the encoder answering enc and the screen rejecting its
\* failAt-th paint (0: none)
PrintQr ==
    /\ pc = "start"
    /\ \E enc \in EncoderOutcomes, failAt \in 0..MaxPaintFail :
          LET r == print_qr(NewScreen(failAt), enc)
          IN  /\ pc' = IF r.panic THEN "panicked" ELSE "done"
              /\ screen' = r.screen
              /\ last' = [op |-> "print_qr", enc |-> enc, out |-> r]
    /\ UNCHANGED <<pixels, qr, target, renders, jobs, no_color>>

Next ==
    \/ New
    \/ \E thickness \in 0..MaxThickness, quiet \in Color :
          Surround(thickness, quiet)
    \/ Width
    \/ Height
    \/ \E i \in Sinks : Render(i, NoFault)
    \/ \E t \in Threads : PrintStdoutCall(t)
    \/ \E t \in Threads, fault \in Faults(MaxFail) : StdoutWrite(t, fault)
    \/ QrFrom
    \/ ToMatrix
    \/ PrintQr

Spec == Init /\ [][Next]_vars

(***************************************************************************)
(* The matrix on its own: any flat sequence up to MaxMatrixLen, or a code  *)
(* of the encoder, then surround calls.                                    *)
(***************************************************************************)
NewMatrix == NewUpTo(MaxMatrixLen)

MatrixNext ==
    \/ NewMatrix
    \/ \E thickness \in 0..MaxThickness, quiet \in Color :
          Surround(thickness, quiet)
    \/ QrFrom
    \/ ToMatrix

MatrixSpec == Init /\ [][MatrixNext]_vars

(***************************************************************************)
(* Rendering into a sink that fails: a matrix built by Matrix::new and     *)
(* grown by Light borders one pixel thick (sides up to MaxSide: several    *)
(* output rows, both loops of render), then renders into one sink that     *)
(* rejects any one of its first MaxReject write calls (or none), with      *)
(* either kind of error.                                                   *)
(***************************************************************************)
RenderRejecting ==
    \E fault \in Faults(MaxReject) : Render(CHOOSE i \in Sinks : TRUE, fault)

SinkNext ==
    \/ New
    \/ Surround(1, "Light")
    \/ RenderRejecting

SinkSpec == Init /\ [][SinkNext]_vars

(***************************************************************************)
(* usize_sqrt on its own: any number up to MaxNum, then the call.          *)
(***************************************************************************)
SqrtInit ==
    /\ pc = "sqrt"
    /\ pixels = <<>>
    /\ qr = [exists |-> FALSE]
    /\ target = [i \in Writers |-> NewSink(NoFault)]
    /\ renders = [i \in Sinks |-> <<>>]
    /\ jobs = [t \in Threads |-> Idle]
    /\ screen = NewScreen(0)
    /\ no_color \in BOOLEAN
    /\ \E num \in 0..MaxNum : last = [op |-> "sqrt_input", num |-> num]

\* usize_sqrt(num)
Sqrt ==
    /\ pc = "sqrt"
    /\ last.op = "sqrt_input"
    /\ last' = [op |-> "usize_sqrt", num |-> last.num,
                out |-> usize_sqrt(last.num)]
    /\ pc' = IF usize_sqrt(last.num).panic THEN "panicked" ELSE "done"
    /\ UNCHANGED <<pixels, qr, target, renders, jobs, screen, no_color>>

SqrtNext == Sqrt

SqrtSpec == SqrtInit /\ [][SqrtNext]_vars
(***************************************************************************)
(* Vocabulary of the properties, independent of the definitions above.     *)
(***************************************************************************)
IsSquare(n) == \E k \in 0..n : k * k = n

\* the side of a square flat sequence
Side(seq) == CHOOSE k \in 0..Len(seq) : k * k = Len(seq)

\* the cell at 0-based (row, col) of a flat sequence of side s
At(seq, s, row, col) == seq[row * s + col + 1]

\* ceil(s / 2)
CeilHalf(s) == CHOOSE h \in 0..s : 2 * h >= s /\ 2 * h < s + 2

\* seq is the grid `inner` (side s) surrounded by t cells of f on each side
IsSurrounded(seq, inner, s, t, f) ==
    /\ Len(seq) = (s + 2 * t) * (s + 2 * t)
    /\ \A row \in 0..(s + 2 * t - 1), col \in 0..(s + 2 * t - 1) :
          IF row < t \/ row >= s + t \/ col < t \/ col >= s + t
          THEN At(seq, s + 2 * t, row, col) = f
          ELSE At(seq, s + 2 * t, row, col) = At(inner, s, row - t, col - t)

(***************************************************************************)
(* C1.  Whenever surround(t, f) has been called on a matrix of side s      *)
(* (s = 0 included), it has not panicked, the matrix now has side s + 2t,  *)
(* every cell with row or column < t or >= s + t holds f, and the cell at  *)
(* (i + t, j + t) holds what cell (i, j) held before the call; for s = 0   *)
(* the result is a 2t x 2t grid of f.                                      *)
(***************************************************************************)
C1_SurroundPads ==
    last.op = "surround" =>
        /\ ~last.panic
        /\ IsSurrounded(pixels, last.before, Side(last.before),
                        last.thickness, last.quiet)
        /\ (Len(last.before) = 0 =>
               pixels = [k \in 1..(2 * last.thickness * 2 * last.thickness)
                            |-> last.quiet])

\* a 3 x 3 matrix holding both colours has been surrounded by 1 Dark cell
C1_Witness ==
    /\ last.op = "surround"
    /\ last.thickness = 1
    /\ last.quiet = "Dark"
    /\ Len(last.before) = 9
    /\ last.before[1] = "Light"
    /\ last.before[9] = "Dark"
    /\ Len(pixels) = 25
    /\ pixels[7] = "Light"

(***************************************************************************)
(* C2.  A constructed matrix, after Matrix::new or to_matrix and after any *)
(* number of surround calls, always has pixels.length = size() * size()    *)
(* with size() not panicking; a Matrix::new on a sequence that breaks this *)
(* panics and leaves no matrix; surround itself never panics.              *)
(***************************************************************************)
C2_PerfectSquareInvariant ==
    /\ pc = "matrix" =>
          /\ IsSquare(Len(pixels))
          /\ size(pixels) = [panic |-> FALSE, val |-> Side(pixels)]
          /\ Len(pixels) = size(pixels).val * size(pixels).val
    /\ (last.op = "new" /\ ~IsSquare(Len(last.input))) =>
          /\ last.panic
          /\ pc = "panicked"
          /\ pixels = <<>>
    /\ last.op = "surround" => ~last.panic /\ pc = "matrix"

\* an all-Light 2 x 2 matrix built by hand has been surrounded by 1 Dark cell
C2_Witness ==
    /\ pc = "matrix"
    /\ last.op = "surround"
    /\ last.thickness = 1
    /\ Len(last.before) = 4
    /\ Len(pixels) = 16
    /\ ~qr.exists
    /\ \A k \in 1..4 : last.before[k] = "Light"
    /\ pixels[1] = "Dark"

(***************************************************************************)
(* C3.  Matrix::new panics exactly on the sequences whose length is not a  *)
(* perfect square; on a perfect square (0 included) it yields the matrix   *)
(* of those pixels, whose size() is the root of the length.                *)
(***************************************************************************)
C3_NewChecksLength ==
    last.op = "new" =>
        /\ last.panic <=> ~IsSquare(Len(last.input))
        /\ ~last.panic =>
              /\ pc = "matrix"
              /\ pixels = last.input
              /\ size(pixels) = [panic |-> FALSE, val |-> Side(last.input)]

\* Matrix::new has panicked on six pixels
C3_Witness ==
    /\ last.op = "new"
    /\ Len(last.input) = 6
    /\ last.panic
    /\ pc = "panicked"

(***************************************************************************)
(* C4.  usize_sqrt(n) returns k when n = k * k (0 for 0) and panics when n *)
(* has no integer root; it never returns s with s * s # n.                 *)
(***************************************************************************)
C4_SqrtExactOrPanic ==
    last.op = "usize_sqrt" =>
        /\ \A k \in 0..last.num :
              k * k = last.num => last.out = [panic |-> FALSE, val |-> k]
        /\ ~IsSquare(last.num) => last.out.panic /\ pc = "panicked"
        /\ ~last.out.panic => last.out.val * last.out.val = last.num

\* usize_sqrt(25) has returned 5
C4_Witness ==
    /\ last.op = "usize_sqrt"
    /\ last.num = 25
    /\ ~last.out.panic
    /\ last.out.val = 5

(***************************************************************************)
(* Vocabulary of the rendering properties: what a text is read as.         *)
(***************************************************************************)
\* an unstyled line feed
LineFeed == [glyph |-> "LF", fg |-> "none", bg |-> "none"]

\* the styled character cells: a space or a lower half block in colours
Cells ==
    [glyph : {" ", "U+2584"}, fg : {"White", "Black"}, bg : {"White", "Black"}]

\* the character cells that carry no colour: the same characters between
\* SGR sequences that select nothing
PlainCells == [glyph : {" ", "U+2584"}, fg : {"none"}, bg : {"none"}]

\* w is a character cell
IsCell(w) == w \in Cells \cup PlainCells

\* the SGR parameter that selects a colour
Sgr(color) == IF color = "White" THEN "5;15" ELSE "5;0"

\* the text of a cell, piece by piece: background set, foreground set, the
\* character, background reset, foreground reset
CellText(w) ==
    IF w \in PlainCells
    THEN <<"ESC[", "m", "ESC[", "m", w.glyph, "ESC[", "m", "ESC[", "m">>
    ELSE <<"ESC[", "48;", Sgr(w.bg), "m", "ESC[", "38;", Sgr(w.fg), "m",
           w.glyph, "ESC[", "49", "m", "ESC[", "39", "m">>

\* the text starts with the text of the cell w
StartsWith(text, w) ==
    /\ Len(text) >= Len(CellText(w))
    /\ SubSeq(text, 1, Len(CellText(w))) = CellText(w)

\* a text read from its start as line feeds and whole cells (units), and
\* what is left where that reading stops (rest)
RECURSIVE Parse(_)
Parse(text) ==
    IF text = <<>>
    THEN [units |-> <<>>, rest |-> <<>>]
    ELSE IF Head(text) = "LF"
    THEN LET p == Parse(Tail(text))
         IN  [units |-> <<LineFeed>> \o p.units, rest |-> p.rest]
    ELSE IF \E w \in Cells \cup PlainCells : StartsWith(text, w)
    THEN LET w == CHOOSE w \in Cells \cup PlainCells : StartsWith(text, w)
             p == Parse(SubSeq(text, Len(CellText(w)) + 1, Len(text)))
         IN  [units |-> <<w>> \o p.units, rest |-> p.rest]
    ELSE [units |-> <<>>, rest |-> text]

\* w is the cell the truth table gives for (top, bottom); the foreground of
\* a space is left open by the table
MatchesTable(w, top, bottom) ==
    CASE top = "Dark"  /\ bottom = "Dark"  ->
            w.glyph = " " /\ w.bg = "Black"
      [] top = "Dark"  /\ bottom = "Light" ->
            w.glyph = "U+2584" /\ w.fg = "White" /\ w.bg = "Black"
      [] top = "Light" /\ bottom = "Dark"  ->
            w.glyph = "U+2584" /\ w.fg = "Black" /\ w.bg = "White"
      [] top = "Light" /\ bottom = "Light" ->
            w.glyph = " " /\ w.bg = "White"

\* the pixel under (2r, c) in a grid of side s, Light when there is none
Bottom(seq, s, r, c) ==
    IF 2 * r + 1 < s THEN At(seq, s, 2 * r + 1, c) ELSE "Light"

\* data is the text of the grid seq of side s: CeilHalf(s) lines of s cells
\* chosen by the truth table, each line ended by one line feed
IsTextOf(data, seq, s) ==
    /\ Len(data) = CeilHalf(s) * (s + 1)
    /\ \A r \in 0..(CeilHalf(s) - 1) :
          /\ data[r * (s + 1) + s + 1] = LineFeed
          /\ \A c \in 0..(s - 1) :
                MatchesTable(data[r * (s + 1) + c + 1],
                             At(seq, s, 2 * r, c), Bottom(seq, s, r, c))

\* the cell w as the styling library writes it in this environment: with its
\* colours, or with NO_COLOR set without them
Shown(w) ==
    IF no_color /\ w \in Cells
    THEN [w EXCEPT !.fg = "none", !.bg = "none"]
    ELSE w

\* every render call made so far, on any sink: the sink and the call's number
AllRenders ==
    UNION {{<<i, k>> : k \in 1..Len(renders[i])} : i \in Sinks}

(***************************************************************************)
(* C5.  The width the Renderer reports for a matrix is its side, and the   *)
(* height it reports is ceil(side / 2): 0 -> 0, 1 -> 1, 2 -> 1, 3 -> 2,    *)
(* 4 -> 2, 5 -> 3.  Neither call changes the matrix.                       *)
(***************************************************************************)
C5_Dimensions ==
    /\ last.op = "width" =>
          /\ ~last.panic
          /\ pixels = last.before
          /\ last.out = Side(pixels)
    /\ last.op = "height" =>
          /\ ~last.panic
          /\ pixels = last.before
          /\ last.out = CeilHalf(Side(pixels))
          /\ 2 * last.out >= Side(pixels)
          /\ 2 * last.out <= Side(pixels) + 1
          /\ Side(pixels) = 0 => last.out = 0
          /\ Side(pixels) = 1 => last.out = 1
          /\ Side(pixels) = 2 => last.out = 1
          /\ Side(pixels) = 3 => last.out = 2
          /\ Side(pixels) = 4 => last.out = 2
          /\ Side(pixels) = 5 => last.out = 3

\* the Renderer has reported 3 lines for a 5 x 5 matrix
C5_Witness ==
    /\ last.op = "height"
    /\ Len(pixels) = 25
    /\ last.out = 3

(***************************************************************************)
(* C6.  A render that returned Ok has written exactly height(matrix)       *)
(* lines, each of exactly width(matrix) character cells followed by one    *)
(* unstyled line feed, the last line included; an empty matrix writes      *)
(* nothing.  The dimensions written are the dimensions width() and         *)
(* height() report for the matrix.                                         *)
(***************************************************************************)
C6_WrittenDimensions ==
    \A c \in AllRenders :
        LET rec == renders[c[1]][c[2]]
            data == Parse(rec.text).units
            w == width(rec.matrix)
            h == height(rec.matrix)
        IN  rec.result = "Ok" =>
                /\ w = Side(rec.matrix)
                /\ h = CeilHalf(w)
                /\ Parse(rec.text).rest = <<>>
                /\ Len(data) = h * (w + 1)
                /\ \A k \in 1..Len(data) :
                      IF k % (w + 1) = 0
                      THEN data[k] = LineFeed
                      ELSE IsCell(data[k])
                /\ Cardinality({k \in 1..Len(data) : data[k] = LineFeed}) = h
                /\ Len(rec.matrix) = 0 => rec.text = <<>>

\* a 3 x 3 matrix has been rendered: 2 lines of 3 cells and a line feed
C6_Witness ==
    \E i \in Sinks :
        /\ Len(renders[i]) = 1
        /\ renders[i][1].result = "Ok"
        /\ Len(renders[i][1].matrix) = 9
        /\ Len(Parse(target[i].data).units) = 8
        /\ Parse(target[i].data).units[8] = LineFeed

(***************************************************************************)
(* C7.  The cell render asks for at output row r, column c is the truth    *)
(* table's cell for top = pixel[2r][c] and bottom = pixel[2r+1][c]:        *)
(* (Dark, Dark) a space on Black, (Dark, Light) a lower half block White   *)
(* on Black, (Light, Dark) a lower half block Black on White, (Light,      *)
(* Light) a space on White; the missing bottom pixel of the last row of an *)
(* odd side counts as Light.  A render that returned Ok has asked for      *)
(* every such cell, row by row, and the text it wrote reads back as these  *)
(* cells as the styling library shows them.                                *)
(***************************************************************************)
C7_TruthTable ==
    \A c \in AllRenders :
        LET rec == renders[c[1]][c[2]]
            s == Side(rec.matrix)
        IN  /\ \A k \in 1..Len(rec.asked) :
                  LET row == (k - 1) \div (s + 1)
                      col == (k - 1) % (s + 1)
                  IN  col < s =>
                        /\ rec.asked[k] \in Cells
                        /\ MatchesTable(rec.asked[k],
                                        At(rec.matrix, s, 2 * row, col),
                                        Bottom(rec.matrix, s, row, col))
            /\ rec.result = "Ok" =>
                  /\ IsTextOf(rec.asked, rec.matrix, s)
                  /\ Parse(rec.text).units =
                        [k \in 1..Len(rec.asked) |-> Shown(rec.asked[k])]

\* an all-Dark 3 x 3 matrix has been rendered: a line of spaces on Black,
\* then a line of Dark-over-Light cells
C7_Witness ==
    \E i \in Sinks :
        /\ Len(renders[i]) = 1
        /\ renders[i][1].result = "Ok"
        /\ renders[i][1].matrix = [k \in 1..9 |-> "Dark"]
        /\ LET data == renders[i][1].asked
           IN  /\ Len(data) = 8
               /\ \A k \in 1..3 : data[k].glyph = " " /\ data[k].bg = "Black"
               /\ \A k \in 5..7 :
                     data[k] = [glyph |-> "U+2584", fg |-> "White",
                                bg |-> "Black"]

(***************************************************************************)
(* C9.  When the encoder rejects the input, Qr::from and print_qr return   *)
(* Err without panicking; no Qr and no matrix exist afterwards, nothing    *)
(* has been padded and nothing has been written to the screen or a sink.   *)
(***************************************************************************)
C9_EncoderFailure ==
    /\ (last.op = "qr_from" /\ last.enc.err) =>
          /\ last.result = "Err"
          /\ pc = "done"
          /\ ~qr.exists
          /\ pixels = <<>>
          /\ screen.calls = 0
          /\ \A i \in Writers : target[i].calls = 0
    /\ (last.op = "print_qr" /\ last.enc.err) =>
          /\ last.out.result = "Err"
          /\ ~last.out.panic
          /\ pc = "done"
          /\ ~last.out.padded
          /\ screen.calls = 0
          /\ screen.data = <<>>
          /\ \A i \in Writers : target[i].calls = 0

\* print_qr has returned Err for an input the encoder rejected
C9_Witness ==
    /\ last.op = "print_qr"
    /\ last.enc.err
    /\ last.out.result = "Err"

(***************************************************************************)
(* C10 as stated.  print_qr surrounds the encoded matrix with a quiet zone *)
(* of Light pixels 2 thick on each side, so the grid it renders has side   *)
(* payload_width + 4.                                                      *)
(***************************************************************************)
C10_QuietZoneOfTwo ==
    (last.op = "print_qr" /\ ~last.enc.err) =>
        /\ last.out.padded
        /\ last.out.vec_width = last.enc.width + 4
        /\ IsSurrounded(last.out.vec, last.enc.colors, last.enc.width,
                        2, "Light")

(***************************************************************************)
(* C10 as amended.  print_qr surrounds the encoded matrix with a quiet     *)
(* zone of Light pixels 1 thick on each side, so the grid it renders has   *)
(* side payload_width + 2; a screen that accepts every paint then shows    *)
(* that grid and print_qr returns Ok.                                      *)
(***************************************************************************)
C10_QuietZoneOfOne ==
    (last.op = "print_qr" /\ ~last.enc.err) =>
        /\ last.out.padded
        /\ last.out.vec_width = last.enc.width + 2
        /\ IsSurrounded(last.out.vec, last.enc.colors, last.enc.width,
                        1, "Light")
        /\ screen.failAt = 0 =>
              /\ ~last.out.panic
              /\ last.out.result = "Ok"
              /\ IsTextOf(screen.data, last.out.vec, last.enc.width + 2)

\* print_qr has printed a 2 x 2 code with a Dark pixel as a 4 x 4 grid
C10_Witness ==
    /\ last.op = "print_qr"
    /\ ~last.enc.err
    /\ last.enc.width = 2
    /\ last.enc.colors[1] = "Dark"
    /\ last.out.result = "Ok"
    /\ Len(last.out.vec) = 16
    /\ last.out.vec[6] = "Dark"
    /\ Len(screen.data) = 10

(***************************************************************************)
(* Vocabulary of the write calls of a render.                              *)
(***************************************************************************)
\* the character of the cell for (top, bottom)
Glyph(top, bottom) == IF top = bottom THEN " " ELSE "U+2584"

\* w is the cell written for (top, bottom) in this environment: the truth
\* table's cell, or with NO_COLOR set its character without colours
IsCellFor(w, top, bottom) ==
    IF no_color
    THEN w = [glyph |-> Glyph(top, bottom), fg |-> "none", bg |-> "none"]
    ELSE w \in Cells /\ MatchesTable(w, top, bottom)

\* the k-th unit of the text of the grid seq of side s, in row-major
\* order, is w
IsWriteOf(w, k, seq, s) ==
    LET r == (k - 1) \div (s + 1)
        c == (k - 1) % (s + 1)
    IN  IF c = s
        THEN w = LineFeed
        ELSE IsCellFor(w, At(seq, s, 2 * r, c), Bottom(seq, s, r, c))

\* the pieces p are the start of a text the k-th unit may have
IsStartOf(p, k, seq, s) ==
    \E w \in Cells \cup PlainCells :
        /\ IsWriteOf(w, k, seq, s)
        /\ Len(p) < Len(CellText(w))
        /\ p = SubSeq(CellText(w), 1, Len(p))

\* sink t rejected one of the write calls of the render call rec
RejectedIn(t, rec) ==
    /\ t.failAt # 0
    /\ rec.first + rec.calls >= t.failAt
    /\ t.kind = "Interrupted" => rec.first < t.failAt

\* The render call rec on sink t wrote the text of its matrix in row-major
\* order up to where it stopped, and returned Ok only after all of it.
WritesInOrder(t, rec) ==
    LET s == Side(rec.matrix)
        p == Parse(rec.text)
        n == Len(p.units)
        total == CeilHalf(s) * (s + 1)
    IN  /\ rec.result \in {"Ok", "Err"}
        /\ \A u \in 1..n : IsWriteOf(p.units[u], u, rec.matrix, s)
        /\ n <= total
        /\ p.rest # <<>> =>
              /\ n < total
              /\ rec.result = "Err"
              /\ IsStartOf(p.rest, n + 1, rec.matrix, s)
        /\ rec.result = "Ok" => n = total

(***************************************************************************)
(* C11 as stated.  render issues its writes one after the other in         *)
(* row-major order.  When the sink rejects a write, render returns that    *)
(* Err at once: the rejected write is the last call the sink receives (no  *)
(* retry, no later write).  render returns Ok only when every cell and     *)
(* every line feed has been written.                                       *)
(***************************************************************************)
C11_NoWriteRetried ==
    \A c \in AllRenders :
        LET rec == renders[c[1]][c[2]]
            t == target[c[1]]
        IN  /\ WritesInOrder(t, rec)
            /\ RejectedIn(t, rec) =>
                  /\ rec.result = "Err"
                  /\ rec.calls = Len(rec.text) + 1
            /\ ~RejectedIn(t, rec) =>
                  /\ rec.result = "Ok"
                  /\ rec.calls = Len(rec.text)

(***************************************************************************)
(* C11 as amended.  render issues its writes one after the other in        *)
(* row-major order.  When the sink rejects a write call with an error      *)
(* other than ErrorKind::Interrupted, render returns that Err at once: the *)
(* rejected call is the last call the sink receives (no retry, no later    *)
(* write) and the sink holds the writes before it, in order, the last cell *)
(* possibly cut off.  A call rejected with ErrorKind::Interrupted is made  *)
(* again, once, and the render goes on.  render returns Ok only when every *)
(* cell and every line feed has been written.                              *)
(***************************************************************************)
C11_StopsAtFirstFailure ==
    \A c \in AllRenders :
        LET rec == renders[c[1]][c[2]]
            t == target[c[1]]
        IN  /\ WritesInOrder(t, rec)
            /\ (RejectedIn(t, rec) /\ t.kind # "Interrupted") =>
                  /\ rec.result = "Err"
                  /\ rec.calls = Len(rec.text) + 1
            /\ (RejectedIn(t, rec) /\ t.kind = "Interrupted") =>
                  /\ rec.result = "Ok"
                  /\ rec.calls = Len(rec.text) + 1
            /\ ~RejectedIn(t, rec) =>
                  /\ rec.result = "Ok"
                  /\ rec.calls = Len(rec.text)

\* colours on, the sink rejected the write call that sets the foreground of
\* the second cell of a 3 x 3 matrix: render returned Err, that call was the
\* last, the sink holds the first cell and the start of the second, and
\* neither the rest of the first line nor the unpaired last row was written
C11_Witness ==
    \E i \in Sinks :
        /\ ~no_color
        /\ Len(renders[i]) = 1
        /\ Len(renders[i][1].matrix) = 9
        /\ renders[i][1].result = "Err"
        /\ target[i].kind = "Other"
        /\ target[i].failAt = 21
        /\ target[i].calls = 21
        /\ Len(Parse(target[i].data).units) = 1
        /\ Len(Parse(target[i].data).rest) = 5

=====
